---- MODULE Spec2Model ----
(***************************************************************************)
(* A model of the "memory tree" application: the gesture state machine of  *)
(* App.tsx (debounced mode switching, swipe cycling, photo upload and      *)
(* reset), the hand recognizer (its finger-count classifier, its start,   *)
(* frame loop and unmount), the cone position generator and the targets    *)
(* the decorations are animated to.                                        *)
(*                                                                         *)
(* Units.  Times are in milliseconds.  Lengths that the code keeps as      *)
(* floats in [0,1] or [-1,1] (landmark coordinates, handX, handY) are in   *)
(* thousandths, so the swipe threshold 0.05 is 50.                         *)
(*                                                                         *)
(* Clocks.  The code reads Date.now() and arms setTimeout(.., 150).  The   *)
(* model keeps the differences the code computes instead of the absolute   *)
(* clock: every pending timeout carries the time remaining until it is     *)
(* due, and sinceLastSwipe is Date.now() - lastSwipeTime.current,          *)
(* saturated just above the cooldown (all larger values behave alike).     *)
(*                                                                         *)
(* Rendering.  A state update, the render it causes and the effect that    *)
(* render re-runs (cleanup of the previous effect first) are one step.     *)
(***************************************************************************)
EXTENDS Integers, Sequences, FiniteSets, TLC

VARIABLES
  appState,           \* App.tsx:36   useState<AppState>
  photos,             \* App.tsx:37   useState<PhotoData[]>
  currentPhotoIndex,  \* App.tsx:38
  handGesture,        \* App.tsx:39   the latest gesture reading
  lastHandX,          \* App.tsx:45   useRef
  sinceLastSwipe,     \* App.tsx:46   Date.now() - lastSwipeTime.current
  timers,             \* the browser's pending timeouts armed at App.tsx:52
  timeout,            \* App.tsx:52   the handle the effect's cleanup clears
  sinceReading,       \* time since handGesture was last set (saturated)
  hold,               \* the gesture a user is holding steadily, or "none"
  last,               \* the step that led to this state
  moved,              \* whether that step was a reading whose handX differs
                      \* from lastHandX by more than the swipe threshold
  hand,               \* the classifier on its own: a frame's landmarks
  gestureOut,         \* the classifier on its own: the reading derived
  cone,               \* the cone generator on its own: arguments, calls
  rec,                \* HandRecognizer: its refs, camera and frame loop
  scene               \* Decorations: the stored data and the frame targets

vars == <<appState, photos, currentPhotoIndex, handGesture, lastHandX,
          sinceLastSwipe, timers, timeout, sinceReading, hold, last, moved,
          hand, gestureOut, cone, rec, scene>>

appVars == <<appState, photos, currentPhotoIndex, handGesture, lastHandX,
             sinceLastSwipe, timers, timeout, sinceReading, hold, last, moved>>

studyVars == <<hand, gestureOut, cone, rec, scene>>

----------------------------------------------------------------------------
(* Bounds of the model *)

MaxPhotos == 3
MaxBatch == 2
MaxTimers == 2
TicksPerDebounce == 2
MaxFiles == 9

(* Program constants *)

DEBOUNCE_MS == 150
swipeCooldown == 600
SWIPE_THRESHOLD == 50
DECORATION_COUNT == 350

TickMs == DEBOUNCE_MS \div TicksPerDebounce

Abs(x) == IF x < 0 THEN -x ELSE x
Min(a, b) == IF a < b THEN a ELSE b
Max(a, b) == IF a > b THEN a ELSE b

----------------------------------------------------------------------------
(* types.ts *)

TREE == "TREE"
SCATTERED == "SCATTERED"
ZOOM == "ZOOM"
AppState == {TREE, SCATTERED, ZOOM}

----------------------------------------------------------------------------
(* The cone generator, utils/math calculateTreePosition.                   *)
(* The result is kept in cylindrical form and free of division:            *)
(*   radiusT = radius * total, with radiusBottom in tenths;                *)
(*   yT      = (y - height/2) * 2 * total;                                 *)
(*   angle2  = angle * 2.                                                  *)
(* x = cos(angle) * radius and z = sin(angle) * radius, so the horizontal  *)
(* distance of the point from the axis is |radius|.                        *)

calculateTreePosition(index, total, radiusBottom, height) ==
  [radiusT |-> radiusBottom * (total - index),
   yT      |-> 2 * index * height - height * total,
   angle2  |-> index]

HorizontalDistanceT(pos) == Abs(pos.radiusT)

----------------------------------------------------------------------------
(* The gesture classifier, HandRecognizer predictWebcam.                   *)

fingerTips == <<4, 8, 12, 16, 20>>
fingerPips == <<2, 6, 10, 14, 18>>

\* Math.hypot(a.x - b.x, a.y - b.y), squared
Hypot2(a, b) == (a.x - b.x) * (a.x - b.x) + (a.y - b.y) * (a.y - b.y)

\* dTip > dPip * 1.1, compared on the squares of the two distances
FingerExtended(landmarks, i) ==
  LET wrist == landmarks[0]
      tip == landmarks[fingerTips[i]]
      pip == landmarks[fingerPips[i]]
  IN 100 * Hypot2(tip, wrist) > 121 * Hypot2(pip, wrist)

ExtendedFingers(landmarks) ==
  Cardinality({i \in 1..5 : FingerExtended(landmarks, i)})

IsOpenOfFourFingers(extendedFingers) == extendedFingers >= 4
IsFistOf(extendedFingers) == extendedFingers = 0
IsOpenOf(extendedFingers) == extendedFingers = 5

Classify(landmarks) ==
  LET extendedFingers == ExtendedFingers(landmarks)
  IN [isFist     |-> IsFistOf(extendedFingers),
      isOpen     |-> IsOpenOf(extendedFingers),
      isPinching |-> FALSE,
      handX      |-> -(landmarks[9].x - 500) * 2,
      handY      |-> -(landmarks[9].y - 500) * 2]

(* Landmark inputs.  The wrist is at (500, 900) and every knuckle (PIP) at *)
(* distance 200 above it; a finger tip is at distance 150 (curled), 220    *)
(* (exactly 1.1 times the knuckle distance) or 300 (extended).             *)
FingerPoses == {"curled", "edge", "extended"}
TipY(pose) == IF pose = "curled" THEN 750 ELSE IF pose = "edge" THEN 680 ELSE 600
PalmXs == {450, 475, 500}

MakeLandmarks(poses, x9) ==
  [k \in 0..20 |->
     IF k = 0 THEN [x |-> 500, y |-> 900]
     ELSE IF k = 9 THEN [x |-> x9, y |-> 500]
     ELSE IF \E i \in 1..5 : fingerTips[i] = k
       THEN [x |-> 500, y |-> TipY(poses[CHOOSE i \in 1..5 : fingerTips[i] = k])]
     ELSE [x |-> 500, y |-> 700]]

AllHands == {MakeLandmarks(p, x) : p \in [1..5 -> FingerPoses], x \in PalmXs}

\* hands with the first n fingers extended and the others curled
CountHands ==
  {MakeLandmarks([i \in 1..5 |-> IF i <= n THEN "extended" ELSE "curled"], x) :
     n \in 0..5, x \in PalmXs}

----------------------------------------------------------------------------
(* App.tsx *)

InitialGesture ==
  [isFist |-> FALSE, isOpen |-> TRUE, isPinching |-> FALSE, handX |-> 0, handY |-> 0]

(* generateId draws a random 9-character string.  The ids matter only by   *)
(* being distinct, so the i-th id drawn while the ids in `used` exist is   *)
(* modelled as the i-th natural number not in use.                         *)
RECURSIVE generateId(_, _)
generateId(used, i) ==
  LET fresh == CHOOSE n \in 1..(Cardinality(used) + 1) : n \notin used
  IN IF i = 1 THEN fresh ELSE generateId(used \cup {fresh}, i - 1)

\* const activePhotoId = photos.length > 0 ? photos[currentPhotoIndex].id : null
\* (an index outside the list reads undefined, which has no id)
null == 0
NoSuchPhoto == -1
ActivePhotoId(ph, idx) ==
  IF Len(ph) > 0
    THEN (IF idx + 1 \in 1..Len(ph) THEN ph[idx + 1].id ELSE NoSuchPhoto)
    ELSE null

\* clearTimeout(timeout)
ClearTimeoutForgotten(ts, id) == ts
ClearTimeout(ts, id) == {t \in ts : t.id # id}

\* the handle setTimeout returns: one no pending timeout has
NewTimerId(ts) ==
  IF \E i \in 1..MaxTimers : \A t \in ts : t.id # i
    THEN CHOOSE i \in 1..MaxTimers :
           /\ \A t \in ts : t.id # i
           /\ \A j \in 1..(i - 1) : \E t \in ts : t.id = j
    ELSE MaxTimers

\* setTimeout(() => {...}, 150): the callback closes over handGesture and photos
ArmTimeout(ts, id, g, n) ==
  {t \in ts : t.id # id} \cup
    {[id |-> id, isFist |-> g.isFist, isOpen |-> g.isOpen, photosLen |-> n,
      remaining |-> DEBOUNCE_MS]}

\* the body of the timeout callback: the mode it sets
TimeoutTargetIgnoringPhotos(t, st) ==
  IF t.isFist THEN TREE ELSE IF t.isOpen THEN ZOOM ELSE st
TimeoutTargetNeutralScatters(t, st) ==
  IF t.isFist THEN TREE
  ELSE IF t.isOpen THEN (IF t.photosLen > 0 THEN ZOOM ELSE SCATTERED)
  ELSE SCATTERED
TimeoutTarget(t, st) ==
  IF t.isFist THEN TREE
  ELSE IF t.isOpen THEN (IF t.photosLen > 0 THEN ZOOM ELSE SCATTERED)
  ELSE st

PrevIndexForward(prev, n) == (prev + 1) % n
PrevIndex(prev, n) == (prev - 1 + n) % n
NextIndexUnbounded(prev, n) == prev + 1
NextIndex(prev, n) == (prev + 1) % n

\* the condition of the swipe branch
SwipeDetectedWithoutCooldown(st, g, n, deltaX, since) ==
  /\ st = ZOOM /\ g.isOpen /\ n > 1
  /\ Abs(deltaX) > SWIPE_THRESHOLD
SwipeDetectedInAnyMode(st, g, n, deltaX, since) ==
  /\ g.isOpen /\ n > 1
  /\ Abs(deltaX) > SWIPE_THRESHOLD
  /\ since > swipeCooldown
SwipeDetected(st, g, n, deltaX, since) ==
  /\ st = ZOOM /\ g.isOpen /\ n > 1
  /\ Abs(deltaX) > SWIPE_THRESHOLD
  /\ since > swipeCooldown

\* the dependency array [handGesture, appState, photos.length]; a reading is
\* always a new object
DepsChangedWithoutLength(newReading, st0, st1, n0, n1) ==
  newReading \/ st0 # st1
DepsChanged(newReading, st0, st1, n0, n1) ==
  newReading \/ st0 # st1 \/ n0 # n1

(* One run of the effect after a render with gesture g, mode st, n photos   *)
(* and index idx: the previous run's cleanup, then the body.               *)
RunEffect(ts, g, st, n, idx) ==
  LET cleared == ClearTimeout(ts, timeout)
      id == NewTimerId(cleared)
      deltaX == g.handX - lastHandX
      swipe == SwipeDetected(st, g, n, deltaX, sinceLastSwipe)
  IN /\ timers' = ArmTimeout(cleared, id, g, n)
     /\ timeout' = id
     /\ currentPhotoIndex' =
          IF swipe
            THEN (IF deltaX > 0 THEN PrevIndex(idx, n) ELSE NextIndex(idx, n))
            ELSE idx
     /\ sinceLastSwipe' = IF swipe THEN 0 ELSE sinceLastSwipe
     /\ lastHandX' = g.handX

\* a render that re-runs the effect only when a dependency changed
Render(ts, newReading, g, st, n, idx) ==
  IF DepsChanged(newReading, appState, st, Len(photos), n)
    THEN RunEffect(ts, g, st, n, idx)
    ELSE /\ timers' = ts
         /\ currentPhotoIndex' = idx
         /\ UNCHANGED <<timeout, sinceLastSwipe, lastHandX>>

----------------------------------------------------------------------------
(* Initial state: the first render and the first run of the effect *)

InitApp ==
  /\ appState = TREE
  /\ photos = <<>>
  /\ currentPhotoIndex = 0
  /\ handGesture = InitialGesture
  /\ lastHandX = 0
  /\ sinceLastSwipe = swipeCooldown + 1
  /\ timers = ArmTimeout({}, 1, InitialGesture, 0)
  /\ timeout = 1
  /\ sinceReading = 0
  /\ hold = "none"
  /\ last = "mount"
  /\ moved = FALSE

NoHand ==
  /\ hand = MakeLandmarks([i \in 1..5 |-> "extended"], 500)
  /\ gestureOut = [valid |-> FALSE, gesture |-> InitialGesture]

NoCone ==
  cone = [total |-> 0, radiusBottom |-> 0, height |-> 0, calls |-> <<>>]

\* HandRecognizer and Decorations left out of the picture
NoRecognizer == rec = [pc |-> "abstract"]
NoScene == scene = [decorations |-> <<>>, targets |-> <<>>]

NoStudy == NoHand /\ NoCone /\ NoRecognizer /\ NoScene

Init == InitApp /\ NoStudy

----------------------------------------------------------------------------
(* Actions of the application *)

\* HandRecognizer calls onGestureUpdate = setHandGesture with a new reading
setHandGesture(g) ==
  /\ handGesture' = g
  /\ sinceReading' = 0
  /\ Render(timers, TRUE, g, appState, Len(photos), currentPhotoIndex)
  /\ last' = "reading"
  /\ moved' = (Abs(g.handX - lastHandX) > SWIPE_THRESHOLD)
  /\ UNCHANGED <<appState, photos, hold>>

DeliverReading(landmarks) ==
  /\ setHandGesture(Classify(landmarks))
  /\ UNCHANGED studyVars

\* a pending timeout is due and its callback runs
TimerFire(t) ==
  /\ t \in timers
  /\ t.remaining = 0
  /\ LET st == TimeoutTarget(t, appState)
     IN /\ appState' = st
        /\ Render(timers \ {t}, FALSE, handGesture, st, Len(photos),
                  currentPhotoIndex)
  /\ last' = "timer"
  /\ moved' = FALSE
  /\ UNCHANGED <<photos, handGesture, sinceReading, hold>>
  /\ UNCHANGED studyVars

\* [...prev, ...newPhotos]
AppendPhotosPrepending(prev, newPhotos) == newPhotos \o prev
AppendPhotos(prev, newPhotos) == prev \o newPhotos

\* handlePhotoUpload with a list of k files
PhotoUpload(k) ==
  LET newPhotos ==
        [i \in 1..k |->
           [id |-> generateId({photos[j].id : j \in 1..Len(photos)}, i),
            treePos |-> calculateTreePosition((i - 1) * 13 + 10, 100, 50, 8)]]
      next == AppendPhotos(photos, newPhotos)
  IN /\ Len(next) <= MaxPhotos
     /\ photos' = next
     /\ Render(timers, FALSE, handGesture, appState, Len(next),
               IF Len(photos) = 0 THEN 0 ELSE currentPhotoIndex)
     /\ last' = "upload"
     /\ moved' = FALSE
     /\ UNCHANGED <<appState, handGesture, sinceReading, hold>>
     /\ UNCHANGED studyVars

\* handleResetPhotos; its button is rendered only while photos exist
ResetPhotosKeepingIndex ==
  /\ Len(photos) > 0
  /\ photos' = <<>>
  /\ appState' = SCATTERED
  /\ Render(timers, FALSE, handGesture, SCATTERED, 0, currentPhotoIndex)
  /\ last' = "reset"
  /\ moved' = FALSE
  /\ UNCHANGED <<handGesture, sinceReading, hold>>
  /\ UNCHANGED studyVars
ResetPhotos ==
  /\ Len(photos) > 0
  /\ photos' = <<>>
  /\ appState' = SCATTERED
  /\ Render(timers, FALSE, handGesture, SCATTERED, 0, 0)
  /\ last' = "reset"
  /\ moved' = FALSE
  /\ UNCHANGED <<handGesture, sinceReading, hold>>
  /\ UNCHANGED studyVars

\* TickMs milliseconds pass
Tick ==
  /\ timers' = {[t EXCEPT !.remaining = Max(0, t.remaining - TickMs)] : t \in timers}
  /\ sinceLastSwipe' = Min(sinceLastSwipe + TickMs, swipeCooldown + 1)
  /\ sinceReading' = Min(sinceReading + TickMs, DEBOUNCE_MS)
  /\ last' = "tick"
  /\ moved' = FALSE
  /\ UNCHANGED <<appState, photos, currentPhotoIndex, handGesture, lastHandX,
                 timeout, hold>>
  /\ UNCHANGED studyVars

Next ==
  \/ \E lm \in CountHands : DeliverReading(lm)
  \/ \E t \in timers : TimerFire(t)
  \/ \E k \in 0..MaxBatch : PhotoUpload(k)
  \/ ResetPhotos
  \/ Tick

Spec == Init /\ [][Next]_vars

----------------------------------------------------------------------------
(* The application when the recognizer never delivers a reading: no hand   *)
(* in view, the camera refused, or the landmark model not loaded.          *)

NextNoHand ==
  \/ \E t \in timers : TimerFire(t)
  \/ \E k \in 0..MaxBatch : PhotoUpload(k)
  \/ ResetPhotos
  \/ Tick

SpecNoHand == Init /\ [][NextNoHand]_vars

----------------------------------------------------------------------------
(* A user holding one gesture steadily in view of the camera: from the     *)
(* moment the hold starts, every detected frame delivers a reading with    *)
(* the same fist/open flags, and less than 150 ms pass between readings.   *)

StartHold(h) ==
  /\ hold = "none"
  /\ hold' = h
  /\ UNCHANGED <<appState, photos, currentPhotoIndex, handGesture, lastHandX,
                 sinceLastSwipe, timers, timeout, sinceReading, last, moved>>
  /\ UNCHANGED studyVars

HeldGesture(g) ==
  \/ hold = "fist" /\ g.isFist
  \/ hold = "open" /\ g.isOpen

HeldReading(lm) ==
  /\ hold # "none"
  /\ HeldGesture(Classify(lm))
  /\ DeliverReading(lm)

HeldTick ==
  /\ hold # "none"
  /\ sinceReading + TickMs < DEBOUNCE_MS
  /\ Tick

HeldTimerFire ==
  /\ hold # "none"
  /\ \E t \in timers : TimerFire(t)

HeldUser ==
  /\ hold # "none"
  /\ \/ \E k \in 0..MaxBatch : PhotoUpload(k)
     \/ ResetPhotos

Free ==
  /\ hold = "none"
  /\ Next

NextHeld ==
  \/ Free
  \/ \E h \in {"fist", "open"} : StartHold(h)
  \/ \E lm \in CountHands : HeldReading(lm)
  \/ HeldTick
  \/ HeldTimerFire
  \/ HeldUser

(* Fairness: a due timeout callback is run by the event loop, time passes, *)
(* and the recognizer keeps delivering the held gesture.                   *)
SpecHeld ==
  /\ Init
  /\ [][NextHeld]_vars
  /\ WF_vars(\E t \in timers : TimerFire(t))
  /\ WF_vars(\E lm \in CountHands : HeldReading(lm))
  /\ WF_vars(HeldTick)

----------------------------------------------------------------------------
(* The classifier on its own: one frame's landmarks, classified once *)

InitClassifier ==
  /\ InitApp
  /\ hand \in AllHands
  /\ gestureOut = [valid |-> FALSE, gesture |-> InitialGesture]
  /\ NoCone /\ NoRecognizer /\ NoScene

PredictWebcam ==
  /\ ~gestureOut.valid
  /\ gestureOut' = [valid |-> TRUE, gesture |-> Classify(hand)]
  /\ UNCHANGED <<appVars, hand, cone, rec, scene>>

NextClassifier == PredictWebcam

SpecClassifier == InitClassifier /\ [][NextClassifier]_vars

----------------------------------------------------------------------------
(* The cone generator on its own: the calls the application makes.         *)
(* INITIAL_DECORATIONS calls it with the indices 0 .. DECORATION_COUNT-1,  *)
(* total DECORATION_COUNT, radiusBottom 4.5 and height 11;                 *)
(* handlePhotoUpload with the indices i*13+10 for the files i = 0, 1, ..   *)
(* of one upload, total 100, radiusBottom 5 and height 8.                  *)

DecorationCone ==
  [total |-> DECORATION_COUNT, radiusBottom |-> 45, height |-> 11, calls |-> <<>>]

PhotoCone ==
  [total |-> 100, radiusBottom |-> 50, height |-> 8, calls |-> <<>>]

ConeIndices(c) ==
  IF c.total = DECORATION_COUNT
    THEN 0..(DECORATION_COUNT - 1)
    ELSE {i * 13 + 10 : i \in 0..(MaxFiles - 1)}

InitCone ==
  /\ InitApp
  /\ NoHand /\ NoRecognizer /\ NoScene
  /\ cone \in {DecorationCone, PhotoCone}

\* one of two calls, the second with a larger index than the first
ConeCall(index) ==
  /\ Len(cone.calls) < 2
  /\ index \in ConeIndices(cone)
  /\ cone.calls # <<>> => index > cone.calls[Len(cone.calls)].index
  /\ cone' = [cone EXCEPT !.calls =
                Append(@, [index |-> index,
                           pos |-> calculateTreePosition(index, cone.total,
                                     cone.radiusBottom, cone.height)])]
  /\ UNCHANGED <<appVars, hand, gestureOut, rec, scene>>

NextCone == \E index \in 0..(DECORATION_COUNT + 13 * MaxFiles) : ConeCall(index)

SpecCone == InitCone /\ [][NextCone]_vars

----------------------------------------------------------------------------
(* HandRecognizer: the asynchronous start (model load, camera request),    *)
(* the frame loop and the unmount.  The environment decides three things   *)
(* when the component mounts: whether the browser has getUserMedia,        *)
(* whether the user grants the camera and whether the model loads.         *)
(*                                                                         *)
(* rec.stream is the MediaStream getUserMedia resolved with: "none",       *)
(* "live" (the camera is on) or "stopped" (its tracks were stopped).       *)
(* rec.view is results.landmarks for the video's current frame: the empty  *)
(* list, or the list of the one hand in view.  rec.detections and          *)
(* rec.deliveries count the detectForVideo and onGestureUpdate calls made  *)
(* for the video's current frame.                                          *)

MaxVideoTime == 2

\* hands with 0, 3 and 5 fingers extended
RecHands ==
  {MakeLandmarks([i \in 1..5 |-> IF i <= n THEN "extended" ELSE "curled"], 500) :
     n \in {0, 3, 5}}

Views == {<<>>} \cup {<<lm>> : lm \in RecHands}

Mounted(supported, granted, modelLoads) ==
  [mounted |-> TRUE, supported |-> supported, granted |-> granted,
   modelLoads |-> modelLoads,
   init |-> "loading", handLandmarker |-> FALSE, camera |-> "idle",
   videoRef |-> TRUE, srcObject |-> FALSE, listener |-> FALSE,
   stream |-> "none", loadeddata |-> FALSE, raf |-> FALSE,
   currentTime |-> 0, view |-> <<>>, lastVideoTime |-> -1,
   detections |-> 0, deliveries |-> 0]

InitRecognizer ==
  /\ InitApp
  /\ NoHand /\ NoCone /\ NoScene
  /\ rec \in {Mounted(s, g, m) : s \in BOOLEAN, g \in BOOLEAN, m \in BOOLEAN}

\* a step of the recognizer that calls nothing of the application
RecStep(r, name) ==
  /\ rec' = r
  /\ last' = name
  /\ moved' = FALSE
  /\ UNCHANGED <<appState, photos, currentPhotoIndex, handGesture, lastHandX,
                 sinceLastSwipe, timers, timeout, sinceReading, hold>>
  /\ UNCHANGED <<hand, gestureOut, cone, scene>>

\* startCamera up to its await
startCamera(r) ==
  IF ~r.supported
    THEN [r EXCEPT !.camera = "unsupported"]
    ELSE [r EXCEPT !.camera = "requesting"]

\* initMediaPipe after its awaits: a rejected load ends the function
initMediaPipe ==
  /\ rec.init = "loading"
  /\ IF rec.modelLoads
       THEN RecStep(startCamera([rec EXCEPT !.init = "loaded",
                                            !.handLandmarker = TRUE]),
                    "recognizer")
       ELSE RecStep([rec EXCEPT !.init = "failed"], "recognizer")

\* if (videoRef.current) inside the try block, reached only with a stream
AttachStreamOnError(granted, videoRef) == videoRef
AttachStream(granted, videoRef) == granted /\ videoRef

\* startCamera after await getUserMedia
getUserMedia ==
  /\ rec.camera = "requesting"
  /\ \E v \in Views :
       LET attach == AttachStream(rec.granted, rec.videoRef)
       IN RecStep([rec EXCEPT
                     !.camera = IF rec.granted THEN "granted" ELSE "denied",
                     !.stream = IF rec.granted \/ attach THEN "live" ELSE "none",
                     !.srcObject = attach,
                     !.listener = attach,
                     !.view = IF attach THEN v ELSE <<>>],
                  "recognizer")

\* handLandmarkerRef.current.detectForVideo(video, ..).landmarks
detectForVideo(r) == r.view

\* video.currentTime !== lastVideoTime.current
FrameIsNewAlways(currentTime, lastVideoTime) == TRUE
FrameIsNew(currentTime, lastVideoTime) == currentTime # lastVideoTime

predictWebcam ==
  IF ~rec.handLandmarker \/ ~rec.videoRef
    THEN RecStep([rec EXCEPT !.raf = FALSE, !.loadeddata = TRUE], "frame")
    ELSE IF FrameIsNew(rec.currentTime, rec.lastVideoTime)
      THEN LET results == detectForVideo(rec)
               seen == [rec EXCEPT !.lastVideoTime = rec.currentTime,
                                   !.raf = TRUE, !.loadeddata = TRUE,
                                   !.detections = Min(@ + 1, 2)]
           IN IF Len(results) > 0
                THEN /\ setHandGesture(Classify(results[1]))
                     /\ rec' = [seen EXCEPT !.deliveries = Min(@ + 1, 2)]
                     /\ UNCHANGED <<hand, gestureOut, cone, scene>>
                ELSE RecStep(seen, "frame")
      ELSE RecStep([rec EXCEPT !.raf = TRUE, !.loadeddata = TRUE], "frame")

\* the video's first frame is there: the "loadeddata" listener runs
LoadedData ==
  /\ rec.listener /\ ~rec.loadeddata /\ rec.stream = "live"
  /\ predictWebcam

\* the callback passed to requestAnimationFrame runs
AnimationFrame ==
  /\ rec.raf
  /\ predictWebcam

\* the playing video shows its next frame
VideoAdvance ==
  /\ rec.srcObject /\ rec.stream = "live" /\ rec.loadeddata
  /\ rec.currentTime < MaxVideoTime
  /\ \E v \in Views :
       RecStep([rec EXCEPT !.currentTime = @ + 1, !.view = v,
                           !.detections = 0, !.deliveries = 0],
               "recognizer")

(* The component unmounts and the effect's cleanup runs.  React detaches   *)
(* videoRef when the video element is removed; the cleanup of a passive    *)
(* effect runs before that (React 16) or after it (React 17 and later),    *)
(* so the cleanup reads either the element or null.                        *)
Unmount ==
  /\ rec.mounted
  /\ \E refSeen \in BOOLEAN :
       /\ refSeen => rec.videoRef
       /\ RecStep([rec EXCEPT
                     !.mounted = FALSE,
                     !.raf = FALSE,
                     !.stream = IF refSeen /\ rec.srcObject THEN "stopped" ELSE @,
                     !.videoRef = FALSE],
                  "unmount")

NextRecognizer ==
  \/ initMediaPipe
  \/ getUserMedia
  \/ LoadedData
  \/ AnimationFrame
  \/ VideoAdvance
  \/ Unmount
  \/ \E t \in timers : TimerFire(t)
  \/ Tick

SpecRecognizer == InitRecognizer /\ [][NextRecognizer]_vars

----------------------------------------------------------------------------
(* Decorations: the data generated once at module load and the target each *)
(* frame computes for every decoration.  Positions are [x, y, z] in        *)
(* thousandths.  The first two of the DECORATION_COUNT decorations are     *)
(* modelled.                                                               *)

SceneIds == {0, 1}

\* Math.cos(index * 0.5) and Math.sin(index * 0.5) in thousandths, index 0 and 1
CosSin(index) ==
  IF index = 0 THEN [cos |-> 1000, sin |-> 0] ELSE [cos |-> 878, sin |-> 479]

\* [x, y - height / 2, z] of calculateTreePosition
TreeVector(index, total, radiusBottom, height) ==
  LET p == calculateTreePosition(index, total, radiusBottom, height)
  IN <<(CosSin(index).cos * p.radiusT) \div (10 * total),
       (1000 * p.yT) \div (2 * total),
       (CosSin(index).sin * p.radiusT) \div (10 * total)>>

(* Two outcomes of the random draws of one decoration:                     *)
(* calculateHeartPosition(3.5) for t = 0, z = -3 and for t = pi/2,         *)
(* z = 1.5;  randomVector(12) for r = 6 with theta = 0, phi = pi/2 and     *)
(* with phi = pi.                                                          *)
RandomDraws ==
  {[heartPos |-> <<0, 2875, -3000>>, scatterPos |-> <<6000, 0, 0>>],
   [heartPos |-> <<2800, 2700, 1500>>, scatterPos |-> <<0, 0, -6000>>]}

\* one element of INITIAL_DECORATIONS
Decoration(i, heart, scatter) ==
  [id |-> i,
   initialPos |-> TreeVector(i, DECORATION_COUNT, 45, 11),
   heartPos |-> heart,
   scatterPos |-> scatter]

\* the instance matrices before the first frame
NoTarget == [from |-> "none", pos |-> <<0, 0, 0>>]

InitScene ==
  /\ InitApp
  /\ NoHand /\ NoCone /\ NoRecognizer
  /\ \E draw \in [SceneIds -> RandomDraws] :
       scene = [decorations |->
                  [i \in SceneIds |->
                     Decoration(i, draw[i].heartPos, draw[i].scatterPos)],
                targets |-> [i \in SceneIds |-> NoTarget]]

(* Two values of state.clock.elapsedTime, t = 0 and t = pi/2, by the sines *)
(* the frame takes of them, in thousandths: wobble[id] = Math.sin(t + id)  *)
(* and pulse = Math.sin(t * 3).                                            *)
ClockSamples ==
  {[wobble |-> [i \in SceneIds |-> IF i = 0 THEN 0 ELSE 841], pulse |-> 0],
   [wobble |-> [i \in SceneIds |-> IF i = 0 THEN 1000 ELSE 540], pulse |-> -1000]}

(* targetPos of one decoration in a frame: a new vector built from the     *)
(* stored position the mode selects, then moved.  `from` names the stored  *)
(* position it was built from.                                             *)
targetPosOfConeInTree(item, st, sinWobble, sinPulse) ==
  IF st = SCATTERED
    THEN [from |-> "scatterPos",
          pos |-> <<item.scatterPos[1],
                    item.scatterPos[2] + (sinWobble * 50) \div 1000,
                    item.scatterPos[3]>>]
    ELSE [from |-> "initialPos", pos |-> item.initialPos]
targetPos(item, st, sinWobble, sinPulse) ==
  IF st = SCATTERED
    THEN [from |-> "scatterPos",
          pos |-> <<item.scatterPos[1],
                    item.scatterPos[2] + (sinWobble * 50) \div 1000,
                    item.scatterPos[3]>>]
  ELSE IF st = TREE
    THEN LET pulse == 1000 + (sinPulse * 50) \div 1000
         IN [from |-> "heartPos",
             pos |-> <<(item.heartPos[1] * pulse) \div 1000,
                       (item.heartPos[2] * pulse) \div 1000,
                       (item.heartPos[3] * pulse) \div 1000>>]
  ELSE [from |-> "initialPos", pos |-> item.initialPos]

\* the useFrame callback of InstancedGroup, with the mode of the last render
Frame ==
  /\ \E t \in ClockSamples :
       scene' = [scene EXCEPT !.targets =
                   [i \in SceneIds |->
                      targetPos(scene.decorations[i], appState, t.wobble[i], t.pulse)]]
  /\ last' = "frame"
  /\ moved' = FALSE
  /\ UNCHANGED <<appState, photos, currentPhotoIndex, handGesture, lastHandX,
                 sinceLastSwipe, timers, timeout, sinceReading, hold>>
  /\ UNCHANGED <<hand, gestureOut, cone, rec>>

\* a fist on one side and an open hand on the other
SceneHands ==
  {MakeLandmarks([i \in 1..5 |-> "curled"], 450),
   MakeLandmarks([i \in 1..5 |-> "extended"], 500)}

NextScene ==
  \/ Frame
  \/ \E lm \in SceneHands : DeliverReading(lm)
  \/ \E t \in timers : TimerFire(t)
  \/ PhotoUpload(1)
  \/ ResetPhotos
  \/ Tick

SpecScene == InitScene /\ [][NextScene]_vars

----------------------------------------------------------------------------
(* Properties *)

\* a timeout callback has just switched the mode: the switch re-ran the
\* effect, which armed a fresh timeout
ModeJustSwitched ==
  /\ last = "timer"
  /\ \E t \in timers : t.remaining = DEBOUNCE_MS

Neutral(g) == ~g.isFist /\ ~g.isOpen

\* C1: whenever the debounce timeout fires, the mode is set from the reading
\* it was armed with: TREE for a fist whatever the photo count, ZOOM for an
\* open hand when a photo is present and SCATTERED when none is.
C1_TimerSetsMode ==
  [][\A t \in timers : TimerFire(t) =>
        /\ t.isFist => appState' = TREE
        /\ (t.isOpen /\ ~t.isFist /\ Len(photos) > 0) => appState' = ZOOM
        /\ (t.isOpen /\ ~t.isFist /\ Len(photos) = 0) => appState' = SCATTERED]_vars

C1_Witness ==
  /\ ModeJustSwitched
  /\ handGesture.isOpen
  /\ Len(photos) > 0
  /\ appState = ZOOM

C3_ZoomHasPhoto ==
  appState = ZOOM =>
    /\ Len(photos) > 0
    /\ ActivePhotoId(photos, currentPhotoIndex) \notin {null, NoSuchPhoto}

C3_Witness ==
  /\ appState = ZOOM
  /\ last = "upload"
  /\ Len(photos) = MaxPhotos

\* C4: a timeout that fires is the one armed for the latest reading, mode
\* and photo count, and that reading arrived at least 150 ms before; the
\* timeout of a superseded reading never fires.
C4_Debounced ==
  [][\A t \in timers : TimerFire(t) =>
        /\ t.id = timeout
        /\ t.isFist = handGesture.isFist
        /\ t.isOpen = handGesture.isOpen
        /\ t.photosLen = Len(photos)
        /\ sinceReading >= DEBOUNCE_MS]_vars

C4_Witness ==
  /\ ModeJustSwitched
  /\ handGesture.isFist
  /\ handGesture.handX # 0
  /\ appState = TREE
  /\ sinceReading >= DEBOUNCE_MS

RECURSIVE PrevTimes(_, _, _)
PrevTimes(k, idx, n) == IF k = 0 THEN idx ELSE PrevTimes(k - 1, PrevIndex(idx, n), n)

RECURSIVE NextTimes(_, _, _)
NextTimes(k, idx, n) == IF k = 0 THEN idx ELSE NextTimes(k - 1, NextIndex(idx, n), n)

\* C6: in ZOOM mode with an open hand and n > 1 photos, a reading whose
\* handX differs from the previous reading's by more than 0.05, outside the
\* cooldown, moves the index by one position modulo n: back when handX
\* increased, forward when it decreased; n such moves in one direction lead
\* back to the starting index.
C6_SwipeCycles ==
  [][LET n == Len(photos)
         deltaX == handGesture'.handX - handGesture.handX
     IN (/\ last' = "reading"
         /\ appState = ZOOM
         /\ handGesture'.isOpen
         /\ n > 1
         /\ Abs(deltaX) > SWIPE_THRESHOLD
         /\ sinceLastSwipe > swipeCooldown) =>
          /\ deltaX > 0 => currentPhotoIndex' = (currentPhotoIndex - 1 + n) % n
          /\ deltaX < 0 => currentPhotoIndex' = (currentPhotoIndex + 1) % n
          /\ currentPhotoIndex' # currentPhotoIndex
          /\ PrevTimes(n, currentPhotoIndex, n) = currentPhotoIndex
          /\ NextTimes(n, currentPhotoIndex, n) = currentPhotoIndex
          /\ PrevTimes(n - 1, currentPhotoIndex, n) # currentPhotoIndex]_vars

C6_Witness ==
  /\ last = "reading"
  /\ sinceLastSwipe = 0
  /\ appState = ZOOM
  /\ Len(photos) = 3
  /\ currentPhotoIndex = 2
  /\ handGesture.handX = 0

\* C7: an upload appends: the photos present before keep their positions,
\* the new ones follow, and the index is unchanged when photos existed (0
\* when the list was empty).
C7_UploadAppends ==
  [][last' = "upload" =>
       /\ Len(photos') >= Len(photos)
       /\ \A i \in 1..Len(photos) : photos'[i] = photos[i]
       /\ \A i \in (Len(photos) + 1)..Len(photos') :
            \A j \in 1..Len(photos) : photos'[i].id # photos[j].id
       /\ Len(photos) > 0 => currentPhotoIndex' = currentPhotoIndex
       /\ Len(photos) = 0 => currentPhotoIndex' = 0]_vars

\* an upload that added a photo (the effect re-ran and armed a fresh timeout
\* long after the last reading) while the second photo was the current one
C7_Witness ==
  /\ last = "upload"
  /\ Len(photos) = 3
  /\ currentPhotoIndex = 1
  /\ sinceReading >= DEBOUNCE_MS
  /\ \E t \in timers : t.remaining = DEBOUNCE_MS

\* C8: a reset leaves no photo, index 0 and mode SCATTERED, whatever the
\* mode and the index were.
C8_ResetClears ==
  [][last' = "reset" =>
       /\ photos' = <<>>
       /\ currentPhotoIndex' = 0
       /\ appState' = SCATTERED]_vars

\* a reset right after a swipe: the mode was ZOOM
C8_Witness ==
  /\ last = "reset"
  /\ sinceLastSwipe = 0
  /\ photos = <<>>
  /\ appState = SCATTERED
  /\ currentPhotoIndex = 0

\* C9: the classifier derives isFist exactly for 0 extended fingers, isOpen
\* exactly for 5, neither for 1 to 4, never both, and never isPinching.
C9_ClassifierFlags ==
  gestureOut.valid =>
    LET g == gestureOut.gesture
        count == Cardinality({i \in 1..5 :
                   100 * Hypot2(hand[fingerTips[i]], hand[0]) >
                   121 * Hypot2(hand[fingerPips[i]], hand[0])})
    IN /\ count \in 0..5
       /\ g.isFist <=> count = 0
       /\ g.isOpen <=> count = 5
       /\ count \in 1..4 => (~g.isFist /\ ~g.isOpen)
       /\ ~(g.isFist /\ g.isOpen)
       /\ g.isPinching = FALSE

C9_Witness ==
  /\ gestureOut.valid
  /\ Neutral(gestureOut.gesture)
  /\ ExtendedFingers(hand) = 4

\* C5: a steadily held gesture eventually takes effect: while readings with
\* the same flags keep arriving less than 150 ms apart, the mode eventually
\* becomes TREE for a fist, and ZOOM (photos present) or SCATTERED (none)
\* for an open hand.
C5_HeldGestureTakesEffect ==
  /\ (hold = "fist") ~> (appState = TREE)
  /\ (hold = "open") ~> (appState = IF Len(photos) > 0 THEN ZOOM ELSE SCATTERED)

\* C10: of two positions generated for indices i < j with the same total and
\* bottom radius, the one for j is strictly nearer to the axis.
C10_RadiusDecreases ==
  Len(cone.calls) = 2 =>
    HorizontalDistanceT(cone.calls[2].pos) < HorizontalDistanceT(cone.calls[1].pos)

\* C14: while no reading is delivered, the mode changes only through reset;
\* it stays TREE through start-up and through uploads.
C14_ModeOnlyByReset ==
  [][last' # "reset" => appState' = appState]_vars

\* C15: in every reachable state the index is 0 when there are no photos and
\* within 0 .. n-1 when there are n, so photos[currentPhotoIndex] exists.
C15_IndexInRange ==
  /\ Len(photos) = 0 => currentPhotoIndex = 0
  /\ Len(photos) > 0 => currentPhotoIndex \in 0..(Len(photos) - 1)
  /\ ActivePhotoId(photos, currentPhotoIndex) # NoSuchPhoto

\* a swipe with the most photos the model holds that ended on the first
C15_Witness ==
  /\ last = "reading"
  /\ moved
  /\ sinceLastSwipe = 0
  /\ appState = ZOOM
  /\ Len(photos) = MaxPhotos
  /\ currentPhotoIndex = 0

\* C16: a swipe changes the index only when more than 600 ms have passed
\* since the last accepted swipe; a movement within the cooldown leaves the
\* index unchanged and does not restart the cooldown.
C16_SwipeCooldown ==
  [][last' = "reading" =>
       /\ currentPhotoIndex' # currentPhotoIndex => sinceLastSwipe > swipeCooldown
       /\ sinceLastSwipe <= swipeCooldown =>
            /\ currentPhotoIndex' = currentPhotoIndex
            /\ sinceLastSwipe' = sinceLastSwipe]_vars

\* a movement above the threshold exactly 600 ms after a swipe, rejected
C16_Witness ==
  /\ last = "reading"
  /\ moved
  /\ appState = ZOOM
  /\ handGesture.isOpen
  /\ Len(photos) > 1
  /\ sinceLastSwipe = swipeCooldown

\* C17: a reading leaves the index unchanged unless the mode is ZOOM, the
\* reading is an open hand and more than one photo is present; the effect
\* re-run caused by a mode switch is no swipe.
C17_IndexFrame ==
  [][/\ (/\ last' = "reading"
         /\ ~(appState = ZOOM /\ handGesture'.isOpen /\ Len(photos) > 1)) =>
           currentPhotoIndex' = currentPhotoIndex
     /\ last' = "timer" =>
           /\ currentPhotoIndex' = currentPhotoIndex
           /\ sinceLastSwipe' = sinceLastSwipe]_vars

\* an open hand moving in TREE mode with three photos, long after a swipe
C17_Witness ==
  /\ last = "reading"
  /\ moved
  /\ appState = TREE
  /\ handGesture.isOpen
  /\ Len(photos) = 3
  /\ currentPhotoIndex = 1
  /\ sinceLastSwipe > swipeCooldown

(* C11.  When the browser has no getUserMedia, the camera is refused or    *)
(* the landmark model does not load, the frame loop never starts (neither  *)
(* the "loadeddata" listener nor an animation frame ever runs              *)
(* predictWebcam) and onGestureUpdate is never called: the application     *)
(* keeps the gesture it was constructed with.                              *)
C11_NoReadingOnFailure ==
  (~rec.supported \/ ~rec.granted \/ ~rec.modelLoads) =>
     /\ ~rec.loadeddata /\ ~rec.raf
     /\ rec.deliveries = 0
     /\ last # "reading"
     /\ handGesture = InitialGesture

\* the camera was refused and the application has gone on without a reading
C11_Witness ==
  /\ rec.modelLoads /\ rec.supported /\ rec.camera = "denied"
  /\ last = "timer" /\ appState = SCATTERED

(* C12.  A frame of the video is passed to the detector at most once; a    *)
(* frame with a hand in it delivers exactly one reading, the one           *)
(* classified from that hand, and a frame without a hand delivers none;    *)
(* nothing but a delivery changes the reading, so a timeout that fires     *)
(* while no hand is in view still sets the mode of the last reading.       *)
C12_OverwrittenOnDetectedFrames ==
  [][/\ rec'.detections <= 1
     /\ rec'.deliveries = (IF rec'.detections = 1 /\ Len(rec'.view) > 0 THEN 1 ELSE 0)
     /\ last' = "reading" =>
          /\ Len(rec.view) > 0
          /\ rec.detections = 0
          /\ handGesture' = Classify(rec.view[1])
     /\ last' # "reading" => handGesture' = handGesture
     /\ (last' = "timer" /\ Len(rec.view) = 0) =>
          appState' = (IF handGesture.isFist THEN TREE
                       ELSE IF handGesture.isOpen THEN SCATTERED
                       ELSE appState)]_vars

\* the hand left the view after a fist was read, and the fist's timeout fired
C12_Witness ==
  /\ Len(rec.view) = 0 /\ rec.detections = 1 /\ rec.currentTime > 0
  /\ handGesture.isFist /\ handGesture # InitialGesture
  /\ last = "timer" /\ appState = TREE

(* C18.  After the recognizer is unmounted the camera is off and no        *)
(* reading is delivered, whenever the unmount happens.                     *)
C18_UnmountReleases ==
  ~rec.mounted => (rec.stream # "live" /\ last # "reading")

\* within the wobble (0.05) or the pulse (5 percent) of a stored position
Near(a, b) == \A k \in 1..3 : 20 * Abs(a[k] - b[k]) <= Abs(b[k]) + 1020

(* C13.  Every frame aims every decoration at the stored position of the   *)
(* current mode (scatterPos in SCATTERED, heartPos in TREE, initialPos in  *)
(* ZOOM) and at no other; the targets change in frames only, and no step   *)
(* (reading, swipe, timeout, upload, reset, frame) changes a stored        *)
(* position.                                                               *)
C13_TargetOfMode ==
  [][/\ scene'.decorations = scene.decorations
     /\ last' = "frame" =>
          \A i \in SceneIds :
            LET target == scene'.targets[i]
                item == scene'.decorations[i]
            IN /\ target.from = (IF appState = SCATTERED THEN "scatterPos"
                                 ELSE IF appState = TREE THEN "heartPos"
                                 ELSE "initialPos")
               /\ Near(target.pos, item[target.from])
     /\ last' # "frame" => scene'.targets = scene.targets]_vars

\* a frame in each mode has been seen: here one in TREE after photos were
\* uploaded, swiped through and the fist closed again
C13_Witness ==
  /\ last = "frame"
  /\ appState = TREE
  /\ Len(photos) > 1 /\ currentPhotoIndex > 0
  /\ \A i \in SceneIds : scene.targets[i].from = "heartPos"
  /\ scene.targets[0].pos # scene.decorations[0].heartPos

====
